---- MODULE Spec2Model ----
(***************************************************************************)
(* Model of Docker/sea_route_service.py: the geodesy helpers, the merge    *)
(* point selector, the optimized and guided route builders, the course     *)
(* filter of /route, and the /route and /route/compare handlers with the   *)
(* external pathfinder (searoute) as an environment that returns a route,  *)
(* fails, or never answers.                                                *)
(*                                                                         *)
(* Coordinates are <<lon, lat>> pairs of whole degrees near the equator.   *)
(* Floating point is replaced by integers: distances are whole kilometres  *)
(* (one degree = 111 km), bearings whole degrees, lengths are scaled by    *)
(* 10^6 so that the unit factors 0.539957 and 0.621371 stay exact.         *)
(* Sequences are indexed from 0 through At, as the Python lists are.       *)
(***************************************************************************)
EXTENDS Integers, Sequences, FiniteSets, TLC

\* Longest route the pathfinder returns.
MaxLen == 4

\* The coordinates requests and routes are drawn from: two points 111 km
\* apart and a third more than 200 km from both.
Points == { <<0, 0>>, <<1, 0>>, <<0, 2>> }

Units == { "naut", "km", "mi" }

RouteTypes == { "optimized", "guided", "original" }

\* course is Optional[float]: <<>> is None, <<c>> a course of c degrees.
Courses == { <<>>, <<0>>, <<180>> }

RECURSIVE RoutesOfLen(_)
RoutesOfLen(n) ==
  IF n = 0 THEN { <<>> }
  ELSE { Append(r, p) : r \in RoutesOfLen(n - 1), p \in Points }

\* What searoute can return: a polyline of 2..MaxLen coordinates.
PathfinderRoutes == UNION { RoutesOfLen(n) : n \in 2..MaxLen }

\* What a caller can pass as reference_route: any non-empty sequence.
SuppliedRoutes == UNION { RoutesOfLen(n) : n \in 1..MaxLen }

At(s, i) == s[i + 1]

Last(s) == s[Len(s)]

\* s[k:] of Python, k >= 0.
From(s, k) == IF k >= Len(s) THEN <<>> ELSE SubSeq(s, k + 1, Len(s))

Abs(x) == IF x < 0 THEN -x ELSE x

Min(a, b) == IF a < b THEN a ELSE b

-----------------------------------------------------------------------------
(* Geodesy *)

KmPerDegree == 111

MaxDeviationKm == 200

MergeThresholdM == 100

HeadingTol == 45

WaypointSpacing == 3

StartScanEnd == 5

InitialBearingDiff == 180

BearingWeight == 2

\* float('inf') of the searches: above every distance and score of the model.
Inf == 1000000

\* Length factors scaled by 10^6.
KmScale == 1000000

NautFactor == 539957

MilesFactor == 621371

\* Duration divisors: 24.0 and 44.448, the latter scaled by 1000.
NautSpeed == 24

OtherSpeedMilli == 44448

RECURSIVE SqrtSearch(_, _, _)
SqrtSearch(n, lo, hi) ==
  IF lo >= hi THEN lo
  ELSE IF ((lo + hi + 1) \div 2) * ((lo + hi + 1) \div 2) <= n
  THEN SqrtSearch(n, (lo + hi + 1) \div 2, hi)
  ELSE SqrtSearch(n, lo, (lo + hi + 1) \div 2 - 1)

Max(a, b) == IF a > b THEN a ELSE b

\* Whole kilometres between points dx and dy degrees apart: the integer
\* square root of (111 dx)^2 + (111 dy)^2, which lies between the longer
\* side and the sum of the sides.
PlanarKm(dx, dy) ==
  SqrtSearch(KmPerDegree * KmPerDegree * (dx * dx + dy * dy),
             KmPerDegree * Max(dx, dy), KmPerDegree * (dx + dy))

\* geodesic(...).kilometers, to the whole kilometre.
GeodesicKm(p1, p2) == PlanarKm(Abs(p2[1] - p1[1]), Abs(p2[2] - p1[2]))

\* atan(a/b) in whole degrees for 0 <= a <= b, b > 0.
AtanDeg(a, b) == (45 * a * b + 16 * a * (b - a)) \div (b * b)

\* atan2 of non-negative arguments, 0..90; atan2(0, 0) is 0.
AcuteDeg(a, b) ==
  IF a = 0 /\ b = 0 THEN 0
  ELSE IF a <= b THEN AtanDeg(a, b)
  ELSE 90 - AtanDeg(b, a)

\* The angle in (-180, 180] whose acute part is given, by the signs.
SignedDeg(x, y, acute) ==
  IF x < 0 THEN (IF y >= 0 THEN -acute ELSE acute - 180)
  ELSE (IF y >= 0 THEN acute ELSE 180 - acute)

\* math.degrees(math.atan2(x, y))
Atan2Deg(x, y) == SignedDeg(x, y, AcuteDeg(Abs(x), Abs(y)))

_bearing(p1, p2) ==
  (Atan2Deg(p2[1] - p1[1], p2[2] - p1[2]) + 360) % 360

\* return d if d <= 180 else 360 - d
fold_angle(d) == IF d <= 180 THEN d ELSE 360 - d

_ang_diff(a, b) == fold_angle(Abs(a - b) % 360)

\* The unit branch of calculate_distance.
unit_factor(units) ==
  IF units = "naut" THEN NautFactor
  ELSE IF units = "km" THEN KmScale
  ELSE MilesFactor

calculate_distance(p1, p2, units) == GeodesicKm(p1, p2) * unit_factor(units)

\* The "Calculate total distance" loops.
RECURSIVE total_distance(_, _)
total_distance(coords, units) ==
  IF Len(coords) <= 1 THEN 0
  ELSE calculate_distance(coords[1], coords[2], units)
       + total_distance(Tail(coords), units)

\* total_distance / 24.0 if units == "naut" else total_distance / 44.448
duration_hours(total, units) ==
  IF units = "naut" THEN total \div NautSpeed
  ELSE (total \div OtherSpeedMilli) * 1000
       + ((total % OtherSpeedMilli) * 1000) \div OtherSpeedMilli

\* Mutant: the destination is never appended.
ensure_destination_never(coords, destination) == coords

\* if coords[-1] != destination: coords.append(destination)
ensure_destination(coords, destination) ==
  IF Last(coords) # destination THEN Append(coords, destination) ELSE coords

-----------------------------------------------------------------------------
(* The GeoJSON feature the builders return.  Optional properties are       *)
(* sequences: <<>> when the key is absent or None, <<v>> otherwise.        *)

Feature(coords, total, units, rtype, merge, refs, waypoints) ==
  [ coordinates |-> coords,
    length |-> total,
    units |-> units,
    duration_hours |-> duration_hours(total, units),
    route_type |-> rtype,
    merge_point_index |-> merge,
    reference_points_used |-> refs,
    waypoints_created |-> waypoints ]

\* No feature has been built yet.
NoFeature == Feature(<<>>, 0, "", "", <<>>, <<>>, <<>>)

-----------------------------------------------------------------------------
(* Merge Point Selector: find_optimal_merge_point *)

\* if dist_km < min_dist: min_dist = dist_km; closest_idx = i
closest_update(acc, i, dist_km) ==
  IF dist_km < acc.min_dist THEN [ min_dist |-> dist_km, closest_idx |-> i ]
  ELSE acc

\* The first loop: index of the first point at the least distance.
RECURSIVE closest_loop(_, _, _, _)
closest_loop(ship_position, reference_route, i, acc) ==
  IF i >= Len(reference_route) THEN acc.closest_idx
  ELSE closest_loop(ship_position, reference_route, i + 1,
         closest_update(acc, i,
                        GeodesicKm(ship_position, At(reference_route, i))))

closest_index(ship_position, reference_route) ==
  closest_loop(ship_position, reference_route, 0,
               [ min_dist |-> Inf, closest_idx |-> 0 ])

\* The score of candidate i as the loop body computes it; the bearing "to
\* the destination" is taken to reference_route[-1].
merge_score(ship_position, reference_route, i) ==
  GeodesicKm(ship_position, At(reference_route, i))
  + BearingWeight
    * _ang_diff(_bearing(ship_position, At(reference_route, i)),
                _bearing(ship_position, Last(reference_route)))

\* One pass of the second loop's body; best_merge_idx is <<>> for None.
scan_update(acc, i, dist_km, score) ==
  IF dist_km > MaxDeviationKm THEN acc
  ELSE IF score < acc.best_score
  THEN [ best_score |-> score, best_merge_idx |-> <<i>> ]
  ELSE acc

\* The second loop, from i to the end of the route.
RECURSIVE scan_loop(_, _, _, _)
scan_loop(ship_position, reference_route, i, acc) ==
  IF i >= Len(reference_route) THEN acc.best_merge_idx
  ELSE scan_loop(ship_position, reference_route, i + 1,
         scan_update(acc, i,
                     GeodesicKm(ship_position, At(reference_route, i)),
                     merge_score(ship_position, reference_route, i)))

\* Mutant: the second loop scans from index 0, not from closest_idx.
scored_merge_idx_from_start(ship_position, reference_route, closest_idx) ==
  scan_loop(ship_position, reference_route, 0,
            [ best_score |-> Inf, best_merge_idx |-> <<>> ])

\* best_merge_idx when the second loop ends.
scored_merge_idx(ship_position, reference_route, closest_idx) ==
  scan_loop(ship_position, reference_route, closest_idx,
            [ best_score |-> Inf, best_merge_idx |-> <<>> ])

forward_idx(closest_idx, reference_route) ==
  Min(closest_idx + Len(reference_route) \div 4, Len(reference_route) - 1)

\* Mutant: no forward fallback, None is returned.
merge_idx_without_fallback(best_merge_idx, closest_idx, reference_route) ==
  best_merge_idx

\* "If no good merge point found": the index returned, <<>> for None.
merge_idx_or_fallback(best_merge_idx, closest_idx, reference_route) ==
  IF best_merge_idx = <<>>
  THEN << forward_idx(closest_idx, reference_route) >>
  ELSE best_merge_idx

\* return best_merge_idx, best_merge_point
merge_pair(merge_idx, reference_route) ==
  [ idx |-> merge_idx,
    point |-> IF merge_idx = <<>> THEN <<>>
              ELSE << At(reference_route, merge_idx[1]) >> ]

selected_merge_idx(ship_position, reference_route, closest_idx) ==
  merge_idx_or_fallback(
    scored_merge_idx(ship_position, reference_route, closest_idx),
    closest_idx, reference_route)

find_optimal_merge_point(ship_position, reference_route) ==
  merge_pair(selected_merge_idx(ship_position, reference_route,
                                closest_index(ship_position,
                                              reference_route)),
             reference_route)

-----------------------------------------------------------------------------
(* Route Composer: create_optimized_route_from_position, with the          *)
(* reference route in hand.                                                *)

\* [ship_position], plus the merge point if it is more than 100 m away.
merge_head(ship_position, merge_point) ==
  IF GeodesicKm(ship_position, merge_point) * 1000 > MergeThresholdM
  THEN <<ship_position, merge_point>>
  ELSE <<ship_position>>

\* route_coords for the pair the selector returned.
spliced_coords(ship_position, destination, reference_route, merge) ==
  IF merge.idx = <<>>
  THEN <<ship_position, destination>>
  ELSE ensure_destination(
         merge_head(ship_position, merge.point[1])
         \o From(reference_route, merge.idx[1] + 1),
         destination)

optimized_feature(route_coords, units, merge_idx) ==
  Feature(route_coords, total_distance(route_coords, units), units,
          "optimized_from_position", merge_idx, <<>>, <<>>)

optimized_from_merge(ship_position, destination, reference_route, units, merge) ==
  optimized_feature(
    spliced_coords(ship_position, destination, reference_route, merge),
    units, merge.idx)

create_optimized_route_from_position(ship_position, destination, reference_route, units) ==
  optimized_from_merge(ship_position, destination, reference_route, units,
    find_optimal_merge_point(ship_position, reference_route))

-----------------------------------------------------------------------------
(* Guided Route Builder: create_guided_route from "Start building the      *)
(* guided route" on, with reference_coords settled by the two calls.       *)

\* if bearing_diff < best_bearing_diff: ... best_start_idx = i
start_update(acc, i, bearing_diff) ==
  IF bearing_diff < acc.best_bearing_diff
  THEN [ best_bearing_diff |-> bearing_diff, best_start_idx |-> i ]
  ELSE acc

\* The loop over the first few points for the best aligned start index.
RECURSIVE start_loop(_, _, _, _, _)
start_loop(ship_position, destination, reference_coords, i, acc) ==
  IF i >= Min(Len(reference_coords), StartScanEnd) THEN acc.best_start_idx
  ELSE start_loop(ship_position, destination, reference_coords, i + 1,
         start_update(acc, i,
           _ang_diff(_bearing(ship_position, At(reference_coords, i)),
                     _bearing(ship_position, destination))))

best_start_index(ship_position, destination, reference_coords) ==
  start_loop(ship_position, destination, reference_coords, 1,
             [ best_bearing_diff |-> InitialBearingDiff,
               best_start_idx |-> 1 ])

\* for i in range(best_start_idx, len(reference_coords), waypoint_spacing)
RECURSIVE sample_loop(_, _)
sample_loop(reference_coords, i) ==
  IF i >= Len(reference_coords) THEN <<>>
  ELSE <<At(reference_coords, i)>>
       \o sample_loop(reference_coords, i + WaypointSpacing)

last_added_idx(best_start_idx, n) ==
  best_start_idx
  + ((n - best_start_idx - 1) \div WaypointSpacing) * WaypointSpacing

\* "Make sure we don't miss any important waypoints near the end"
with_final_approach(sampled, reference_coords, best_start_idx) ==
  IF /\ Len(reference_coords) > WaypointSpacing
     /\ last_added_idx(best_start_idx, Len(reference_coords))
        < Len(reference_coords) - 2
  THEN Append(sampled, At(reference_coords, Len(reference_coords) - 2))
  ELSE sampled

sampled_waypoints(ship_position, reference_coords, best_start_idx) ==
  with_final_approach(
    <<ship_position>> \o sample_loop(reference_coords, best_start_idx),
    reference_coords, best_start_idx)

\* new_coords before the destination is appended.
guided_waypoints(ship_position, destination, reference_coords) ==
  IF Len(reference_coords) > 2
  THEN sampled_waypoints(ship_position, reference_coords,
         best_start_index(ship_position, destination, reference_coords))
  ELSE <<ship_position>>

\* "Remove any duplicate consecutive points": acc is filtered_coords.
RECURSIVE dedup_loop(_, _, _)
dedup_loop(new_coords, i, acc) ==
  IF i >= Len(new_coords) THEN acc
  ELSE dedup_loop(new_coords, i + 1,
         IF At(new_coords, i) # Last(acc)
         THEN Append(acc, At(new_coords, i))
         ELSE acc)

remove_consecutive_duplicates(new_coords) ==
  dedup_loop(new_coords, 1, <<new_coords[1]>>)

guided_coords(ship_position, destination, reference_coords) ==
  remove_consecutive_duplicates(
    ensure_destination(
      guided_waypoints(ship_position, destination, reference_coords),
      destination))

guided_feature(filtered_coords, units, reference_coords) ==
  Feature(filtered_coords, total_distance(filtered_coords, units), units,
          "guided", <<>>, <<Len(reference_coords)>>,
          <<Len(filtered_coords)>>)

create_guided_route(ship_position, destination, reference_coords, units) ==
  guided_feature(
    guided_coords(ship_position, destination, reference_coords),
    units, reference_coords)

\* Mutant: the retry's route replaces the first one whatever its length.
retry_reference_always(reference_coords, alt_coords) == alt_coords

\* if len(alt_feature["geometry"]["coordinates"]) > 2: reference_coords = ...
retry_reference(reference_coords, alt_coords) ==
  IF Len(alt_coords) > 2 THEN alt_coords ELSE reference_coords

-----------------------------------------------------------------------------
(* Course Filter of /route *)

\* The while loop: the first index from i_keep on whose bearing from
\* coords[0] is within the tolerance of the course, len(coords) if none.
RECURSIVE keep_loop(_, _, _)
keep_loop(coords, course, i_keep) ==
  IF i_keep >= Len(coords) THEN i_keep
  ELSE IF _ang_diff(_bearing(coords[1], At(coords, i_keep)), course)
          <= HeadingTol
  THEN i_keep
  ELSE keep_loop(coords, course, i_keep + 1)

\* Mutant: when the scan runs off the end the route is kept whole.
kept_coords_or_whole(coords, i_keep) ==
  IF i_keep >= Len(coords) THEN coords
  ELSE <<coords[1]>> \o From(coords, i_keep)

\* filtered_coords = [coords[0]] + coords[i_keep:]
kept_coords(coords, i_keep) == <<coords[1]>> \o From(coords, i_keep)

course_filtered_coords(coords, course, destination) ==
  ensure_destination(kept_coords(coords, keep_loop(coords, course, 1)),
                     destination)

\* The three assignments into the feature after the filter.
refiltered(feat, filtered_coords, total, units) ==
  [ feat EXCEPT !.coordinates = filtered_coords,
                !.length = total,
                !.duration_hours = duration_hours(total, units) ]

\* Mutant: the length of the unfiltered route is kept.
remeasured_stale(feat, filtered_coords, units) ==
  refiltered(feat, filtered_coords, feat.length, units)

remeasured(feat, filtered_coords, units) ==
  refiltered(feat, filtered_coords, total_distance(filtered_coords, units),
             units)

\* "Apply course filtering if specified", on the feature a strategy built.
apply_course_filter(feat, course, destination, units) ==
  IF course # <<>> /\ Len(feat.coordinates) > 1
  THEN remeasured(feat,
         course_filtered_coords(feat.coordinates, course[1], destination),
         units)
  ELSE feat

\* What sr.searoute returns for a route: its feature, length in the units.
searoute_feature(route, units) ==
  Feature(route, total_distance(route, units), units, "", <<>>, <<>>, <<>>)

\* The "direct" entry of /route/compare.
direct_feature(ship_position, destination, units) ==
  Feature(<<ship_position, destination>>,
          calculate_distance(ship_position, destination, units), units,
          "direct", <<>>, <<>>, <<>>)

-----------------------------------------------------------------------------
(* One request.  entry is what was called: GET /route, GET /route/compare, *)
(* or create_optimized_route_from_position with a reference route passed   *)
(* in.  pc is the handler's position, pf the state of its pathfinder call, *)
(* coords the handler's local of that name (the strategy's coordinates,   *)
(* before the course filter), status the HTTP status of the response (0    *)
(* while none has been sent).                                              *)

VARIABLES entry, ship_position, destination, units, course, route_type,
          pc, pf, reference_coords, coords, feature, results, status

vars == << entry, ship_position, destination, units, course, route_type,
           pc, pf, reference_coords, coords, feature, results, status >>

inputs == << entry, ship_position, destination, units, course, route_type >>

NoResults ==
  [ original |-> NoFeature, optimized |-> NoFeature,
    guided |-> NoFeature, direct |-> NoFeature ]

Init ==
  /\ entry \in { "route", "compare", "library" }
  /\ ship_position \in Points
  /\ destination \in Points
  /\ units \in Units
  /\ course \in (IF entry = "route" THEN Courses ELSE { <<>> })
  /\ route_type \in (IF entry = "route" THEN RouteTypes
                     ELSE IF entry = "library" THEN { "optimized" }
                     ELSE { "" })
  /\ pc = "start"
  /\ pf = "idle"
  /\ reference_coords = <<>>
  /\ coords = <<>>
  /\ feature = NoFeature
  /\ results = NoResults
  /\ status = 0

\* searoute is a function of its arguments: within /route/compare the
\* later calls for (ship_position, destination) return what the first did.
AnswersFor(call) ==
  IF entry = "compare" /\ call # "original_call"
  THEN { results.original.coordinates }
  ELSE PathfinderRoutes

\* get_route up to its pathfinder call.
GetRoute ==
  /\ entry = "route" /\ pc = "start"
  /\ pc' = (IF route_type = "optimized" THEN "optimized_call"
            ELSE IF route_type = "guided" THEN "guided_call"
            ELSE "original_call")
  /\ pf' = "pending"
  /\ UNCHANGED << inputs, reference_coords, coords, feature, results, status >>

\* compare_routes up to its first pathfinder call.
CompareRoutes ==
  /\ entry = "compare" /\ pc = "start"
  /\ pc' = "original_call"
  /\ pf' = "pending"
  /\ UNCHANGED << inputs, reference_coords, coords, feature, results, status >>

\* create_optimized_route_from_position called with a reference route.
ComposeFromReference ==
  /\ entry = "library" /\ pc = "start"
  /\ \E route \in SuppliedRoutes :
       /\ reference_coords' = route
       /\ feature' = create_optimized_route_from_position(
                       ship_position, destination, route, units)
  /\ pc' = "done"
  /\ status' = 200
  /\ UNCHANGED << inputs, pf, coords, results >>

\* sr.searoute returns in the "original" branch.
OriginalReturn ==
  /\ pc = "original_call" /\ pf = "pending"
  /\ \E route \in AnswersFor("original_call") :
       IF entry = "route"
       THEN /\ coords' = route
            /\ feature' = apply_course_filter(searoute_feature(route, units),
                                              course, destination, units)
            /\ pc' = "done" /\ pf' = "returned" /\ status' = 200
            /\ UNCHANGED results
       ELSE /\ results' = [ results EXCEPT
                              !.original = searoute_feature(route, units) ]
            /\ pc' = "optimized_call" /\ pf' = "pending"
            /\ UNCHANGED << coords, feature, status >>
  /\ UNCHANGED << inputs, reference_coords >>

\* The rest of the handler once create_optimized_route_from_position has
\* returned built.
AfterOptimized(built) ==
  IF entry = "route"
  THEN /\ coords' = built.coordinates
       /\ feature' = apply_course_filter(built, course, destination, units)
       /\ pc' = "done" /\ pf' = "returned" /\ status' = 200
       /\ UNCHANGED results
  ELSE /\ results' = [ results EXCEPT !.optimized = built ]
       /\ pc' = "guided_call" /\ pf' = "pending"
       /\ UNCHANGED << coords, feature, status >>

\* sr.searoute returns inside create_optimized_route_from_position.
OptimizedReturn ==
  /\ pc = "optimized_call" /\ pf = "pending"
  /\ \E route \in AnswersFor("optimized_call") :
       /\ reference_coords' = route
       /\ AfterOptimized(create_optimized_route_from_position(
                           ship_position, destination, route, units))
  /\ UNCHANGED inputs

\* create_guided_route from "Start building the guided route" to the
\* response of the handler that called it.
AfterGuided(built) ==
  /\ IF entry = "route"
     THEN /\ coords' = built.coordinates
          /\ feature' = apply_course_filter(built, course, destination,
                                            units)
          /\ UNCHANGED results
     ELSE /\ results' = [ results EXCEPT
                            !.guided = built,
                            !.direct = direct_feature(ship_position,
                                                      destination, units) ]
          /\ UNCHANGED << coords, feature >>
  /\ pc' = "done"
  /\ status' = 200

FinishGuided(reference) ==
  /\ reference_coords' = reference
  /\ AfterGuided(create_guided_route(ship_position, destination, reference,
                                     units))

\* The first sr.searoute of create_guided_route returns.
GuidedReturn ==
  /\ pc = "guided_call" /\ pf = "pending"
  /\ \E route \in AnswersFor("guided_call") :
       IF Len(route) <= 2
       THEN /\ reference_coords' = route
            /\ pc' = "retry_call" /\ pf' = "pending"
            /\ UNCHANGED << coords, feature, results, status >>
       ELSE /\ FinishGuided(route)
            /\ pf' = "returned"
  /\ UNCHANGED inputs

\* The offset retry of create_guided_route returns.
RetryReturn ==
  /\ pc = "retry_call" /\ pf = "pending"
  /\ \E alt \in PathfinderRoutes :
       FinishGuided(retry_reference(reference_coords, alt))
  /\ pf' = "returned"
  /\ UNCHANGED inputs

\* The offset retry raises: except: pass.
RetryFail ==
  /\ pc = "retry_call" /\ pf = "pending"
  /\ FinishGuided(reference_coords)
  /\ pf' = "failed"
  /\ UNCHANGED inputs

\* Mutant: a failed call is answered with the direct route.
PathfinderFail_Substitutes ==
  /\ pc \in { "original_call", "optimized_call", "guided_call" }
  /\ pf = "pending"
  /\ pf' = "failed"
  /\ pc' = "done"
  /\ status' = 200
  /\ feature' = direct_feature(ship_position, destination, units)
  /\ UNCHANGED << inputs, reference_coords, coords, results >>

\* Any other sr.searoute call raises: the handler's except answers 500.
PathfinderFail ==
  /\ pc \in { "original_call", "optimized_call", "guided_call" }
  /\ pf = "pending"
  /\ pf' = "failed"
  /\ pc' = "done"
  /\ status' = 500
  /\ UNCHANGED << inputs, reference_coords, coords, feature, results >>

\* The pathfinder never answers this call; the code sets no timeout.
PathfinderSilent ==
  /\ pf = "pending"
  /\ pf' = "silent"
  /\ UNCHANGED << inputs, pc, reference_coords, coords, feature, results,
                  status >>

Next ==
  \/ GetRoute
  \/ CompareRoutes
  \/ ComposeFromReference
  \/ OriginalReturn
  \/ OptimizedReturn
  \/ GuidedReturn
  \/ RetryReturn
  \/ RetryFail
  \/ PathfinderFail
  \/ PathfinderSilent

Spec == Init /\ [][Next]_vars

\* The server runs a request handler that can take a step of its own.  The
\* answers of the pathfinder are the environment's; once a call has gone
\* silent no action is enabled, so what follows is fair under any fairness
\* condition.
LiveSpec ==
  /\ Spec
  /\ WF_vars(GetRoute)
  /\ WF_vars(CompareRoutes)

-----------------------------------------------------------------------------
(* Vocabulary of the properties *)

\* The composed routes the request has built so far: the feature of /route
\* or of the library call, and the optimized and guided entries of
\* /route/compare.
ComposedRoutes ==
  { f \in { feature, results.optimized, results.guided } :
      f.route_type \in { "optimized_from_position", "guided" } }

\* The optimized routes among them, each built from reference_coords.
OptimizedRoutes ==
  { f \in ComposedRoutes : f.route_type = "optimized_from_position" }

GuidedRoutes == { f \in ComposedRoutes : f.route_type = "guided" }

\* The reference route the optimized route was built from: in
\* /route/compare the guided builder's retry may replace reference_coords
\* afterwards.
OptimizedReference ==
  IF entry = "compare" THEN results.original.coordinates
  ELSE reference_coords

\* The course filter of /route ran on coords.
FilterRan ==
  /\ entry = "route" /\ status = 200
  /\ course # <<>> /\ Len(coords) > 1

\* Sum of calculate_distance over the consecutive pairs of cs.
RECURSIVE SumPairs(_, _, _)
SumPairs(cs, u, k) ==
  IF k <= 1 THEN 0
  ELSE SumPairs(cs, u, k - 1) + calculate_distance(cs[k - 1], cs[k], u)

PairwiseLength(cs, u) == SumPairs(cs, u, Len(cs))

DistTo(route, i) == GeodesicKm(ship_position, At(route, i))

Indices(route) == 0 .. (Len(route) - 1)

\* i is the lowest index of a point of route nearest to the start.
IsClosestIdx(route, i) ==
  /\ \A j \in Indices(route) : DistTo(route, j) >= DistTo(route, i)
  /\ \A j \in 0 .. (i - 1) : DistTo(route, j) > DistTo(route, i)

\* Every point of route is farther than maxDeviationKm from the start.
AllBeyondDeviation(route) ==
  \A i \in Indices(route) : DistTo(route, i) > MaxDeviationKm

\* The candidates of the selector: from the closest index on, within range.
Candidates(route) ==
  { i \in Indices(route) :
      /\ \E c \in Indices(route) : IsClosestIdx(route, c) /\ i >= c
      /\ DistTo(route, i) <= MaxDeviationKm }

\* The score of section 4.3, with the caller-supplied destination.
DestinationScore(route, i) ==
  DistTo(route, i)
  + 2 * _ang_diff(_bearing(ship_position, At(route, i)),
                  _bearing(ship_position, destination))

\* No waypoint k >= 1 of cs is within the tolerance of the course.
NoWaypointOnCourse(cs) ==
  \A k \in 1 .. (Len(cs) - 1) :
     _ang_diff(_bearing(cs[1], At(cs, k)), course[1]) > HeadingTol

-----------------------------------------------------------------------------
(* C1 *)

\* C1: every composed route (optimized or guided, from the library call,
\* /route with or without a course filter, or /route/compare) starts exactly
\* at the caller's start and ends exactly at the caller's destination.
C1_EndpointsExact ==
  \A f \in ComposedRoutes :
     /\ Len(f.coordinates) >= 1
     /\ f.coordinates[1] = ship_position
     /\ Last(f.coordinates) = destination

\* A filtered route whose reference route neither starts at the start nor
\* ends at the destination.
C1_Witness ==
  /\ FilterRan
  /\ feature \in ComposedRoutes
  /\ feature.coordinates # coords
  /\ reference_coords[1] # ship_position
  /\ Last(reference_coords) # destination

-----------------------------------------------------------------------------
(* C2 *)

\* C2: no composed route has two consecutive coordinates that are equal;
\* stated for the routes /route returns when start and destination differ.
C2_NoConsecutiveDuplicates ==
  (entry = "route" /\ ship_position # destination) =>
     \A f \in ComposedRoutes :
        \A i \in 1 .. (Len(f.coordinates) - 1) :
           f.coordinates[i] # f.coordinates[i + 1]

-----------------------------------------------------------------------------
(* C3 *)

\* C3: the length of every composed route is the sum of calculate_distance
\* over the consecutive pairs of the coordinates it carries (after the
\* course filter, when it ran), in the requested units.
C3_LengthIsPairwiseSum ==
  \A f \in ComposedRoutes :
     f.length = PairwiseLength(f.coordinates, units)

\* The filter changed the coordinates and the length with them.
C3_Witness ==
  /\ FilterRan
  /\ feature \in ComposedRoutes
  /\ feature.coordinates # coords
  /\ feature.length # PairwiseLength(coords, units)

-----------------------------------------------------------------------------
(* C4 *)

\* The pair m that find_optimal_merge_point returned for route is one index
\* from the closest index to the last, with the coordinate at it.
MeetsGuarantee(route, m) ==
  /\ Len(m.idx) = 1
  /\ m.idx[1] <= Len(route) - 1
  /\ m.point = << At(route, m.idx[1]) >>
  /\ \E c \in 0 .. m.idx[1] : IsClosestIdx(route, c)

\* C4: for the start and any non-empty reference route in hand,
\* find_optimal_merge_point returns one index between the closest index
\* (the lowest index of a nearest point) and the last index, with the
\* coordinate at that index; it is the index an optimized route reports.
C4_MergeIndexForward ==
  /\ reference_coords # <<>> =>
       MeetsGuarantee(reference_coords,
         find_optimal_merge_point(ship_position, reference_coords))
  /\ \A f \in OptimizedRoutes :
       f.merge_point_index
       = find_optimal_merge_point(ship_position, OptimizedReference).idx

\* An optimized route whose closest point is not the first and whose merge
\* index lies strictly between the closest index and the last.
C4_Witness ==
  /\ OptimizedRoutes # {}
  /\ Len(OptimizedReference) >= 3
  /\ ~ IsClosestIdx(OptimizedReference, 0)
  /\ \E f \in OptimizedRoutes :
       /\ ~ IsClosestIdx(OptimizedReference, f.merge_point_index[1])
       /\ f.merge_point_index[1] < Len(OptimizedReference) - 1

-----------------------------------------------------------------------------
(* C5 *)

\* C5: a pathfinder call that fails ends the request with an error and no
\* route: status 500, nothing built by that step, and the error stays.  The
\* one exception is the guided builder's offset retry, whose failure leaves
\* the first reference route (of at most 2 points) in use and the request
\* succeeding.
C5_FailureEndsInError ==
  [][ /\ (pf = "pending" /\ pf' = "failed") =>
           IF pc = "retry_call"
           THEN /\ status' = 200
                /\ reference_coords' = reference_coords
                /\ Len(reference_coords) <= 2
           ELSE /\ status' = 500
                /\ pc' = "done"
                /\ feature' = NoFeature
                /\ results' = results
      /\ status = 500 => (status' = 500 /\ feature' = NoFeature)
    ]_vars

\* /route/compare failed at the guided builder's first call, after the
\* original and optimized routes had been computed.
C5_Witness ==
  /\ entry = "compare"
  /\ pf = "failed" /\ status = 500 /\ pc = "done"
  /\ results.optimized # NoFeature

-----------------------------------------------------------------------------
(* C6 *)

\* The optimized route's coordinates as the builder returned them.
Unfiltered(f) == IF entry = "route" THEN coords ELSE f.coordinates

\* start, the reference route from index k on, and the destination if the
\* reference route does not end there.
SplicedAt(route, k) ==
  IF Last(route) = destination
  THEN <<ship_position>> \o From(route, k)
  ELSE <<ship_position>> \o From(route, k) \o <<destination>>

\* C6: the selector takes its fallback exactly when every reference point
\* is farther than maxDeviationKm from the start; it then returns
\* min(closestIdx + len // 4, len - 1), and the optimized route is spliced
\* onto the reference route at that index (the direct-route branch of the
\* composer is not taken).
C6_FallbackIndex ==
  \A f \in OptimizedRoutes :
     /\ (scored_merge_idx(ship_position, OptimizedReference,
                          closest_index(ship_position, OptimizedReference))
         = <<>>)
        <=> AllBeyondDeviation(OptimizedReference)
     /\ AllBeyondDeviation(OptimizedReference) =>
          \E c \in Indices(OptimizedReference) :
             /\ IsClosestIdx(OptimizedReference, c)
             /\ f.merge_point_index
                = << Min(c + Len(OptimizedReference) \div 4,
                         Len(OptimizedReference) - 1) >>
             /\ Unfiltered(f)
                = SplicedAt(OptimizedReference, f.merge_point_index[1])

\* The start is out of range of a 4-point reference route whose closest
\* point is not the last: the fallback moves one index forward.
C6_Witness ==
  \E f \in OptimizedRoutes :
     /\ AllBeyondDeviation(OptimizedReference)
     /\ Len(OptimizedReference) = 4
     /\ f.merge_point_index[1] >= 1
     /\ IsClosestIdx(OptimizedReference, f.merge_point_index[1] - 1)
     /\ Len(Unfiltered(f)) >= 4

-----------------------------------------------------------------------------
(* C7 *)

\* The guided route as create_guided_route returned it.
GuidedCoordinates ==
  IF entry = "compare" THEN results.guided.coordinates ELSE coords

\* C7 as stated: when the offset retry ends with a reference route of at
\* most 2 points, the guided route is exactly [start, destination]; the
\* retry's route replaces the first only when it has more than 2 points.
C7_DegenerateIsStartDestination ==
  [][ (pc = "retry_call" /\ pc' = "done") =>
        /\ reference_coords' # reference_coords =>
             (Len(reference_coords') > 2 /\ pf' = "returned")
        /\ Len(reference_coords') <= 2 =>
             GuidedCoordinates' = <<ship_position, destination>>
    ]_vars

\* C7 amended: the guided route is [start, destination], which the
\* de-duplication collapses to [start] when start equals destination.
C7_DegenerateIsDeduplicatedPair ==
  [][ (pc = "retry_call" /\ pc' = "done") =>
        /\ reference_coords' # reference_coords =>
             (Len(reference_coords') > 2 /\ pf' = "returned")
        /\ Len(reference_coords') <= 2 =>
             /\ GuidedCoordinates'
                = (IF ship_position = destination THEN <<ship_position>>
                   ELSE <<ship_position, destination>>)
             /\ entry = "route" => feature'.coordinates = GuidedCoordinates'
    ]_vars

\* The retry failed and the degenerate first route was used.
C7_Witness ==
  /\ GuidedRoutes # {}
  /\ pf = "failed" /\ status = 200
  /\ Len(reference_coords) <= 2
  /\ ship_position # destination
  /\ GuidedCoordinates = <<ship_position, destination>>

-----------------------------------------------------------------------------
(* C8 *)

\* C8: a request whose pathfinder call is never answered ends with a
\* routing-unavailable error.
C8_SilentPathfinderEndsInError == (pf = "silent") ~> (status = 500)

-----------------------------------------------------------------------------
(* C9 *)

\* C9: when some candidate lies within maxDeviationKm, the merge index of an
\* optimized route is a candidate of minimum score, the score taking the
\* bearing to the caller-supplied destination; stated for the routes /route
\* returns when start and destination differ.
C9_MinimumDestinationScore ==
  \A f \in OptimizedRoutes :
     (/\ entry = "route" /\ ship_position # destination
      /\ Candidates(OptimizedReference) # {}) =>
       /\ f.merge_point_index[1] \in Candidates(OptimizedReference)
       /\ \A j \in Candidates(OptimizedReference) :
            DestinationScore(OptimizedReference, f.merge_point_index[1])
            <= DestinationScore(OptimizedReference, j)

-----------------------------------------------------------------------------
(* C10 *)

\* C10 as stated: when no waypoint of a composed route is within the
\* tolerance of the course, the filter returns the coordinates it was given;
\* stated for composed routes without repeated points whose start and
\* destination differ.
C10_FilterIsNoOp ==
  (/\ FilterRan /\ NoWaypointOnCourse(coords)
   /\ feature \in ComposedRoutes /\ ship_position # destination
   /\ \A i \in 1 .. (Len(coords) - 1) : coords[i] # coords[i + 1]) =>
     feature.coordinates = coords

\* C10 amended: when no waypoint is within the tolerance of the course, the
\* filter drops every waypoint after the first: it returns [coords[0],
\* destination] ([coords[0]] alone when that is the destination), with
\* length and duration recomputed for that sequence.
C10_FilterKeepsEndpointsOnly ==
  (FilterRan /\ NoWaypointOnCourse(coords)) =>
     /\ feature.coordinates
        = (IF coords[1] = destination THEN <<coords[1]>>
           ELSE <<coords[1], destination>>)
     /\ feature.length = PairwiseLength(feature.coordinates, units)
     /\ feature.duration_hours = duration_hours(feature.length, units)

\* A composed route with intermediate waypoints, none on course.
C10_Witness ==
  /\ FilterRan /\ NoWaypointOnCourse(coords)
  /\ feature \in ComposedRoutes
  /\ Len(coords) >= 3
  /\ Len(feature.coordinates) = 2

====
